---- MODULE Spec2Model ----
(***************************************************************************)
(* A model of DER-VET's microgrid scenario:                                *)
(*   - MicrogridScenario.Reliability_based_sizing_module (the reliability  *)
(*     sizing loop),                                                       *)
(*   - MicrogridScenario.optimize_problem_loop (the rolling horizon),      *)
(*   - ESSSizing (ratings that are a number or a decision variable).       *)
(* Python indices are kept 0-based: a time series of length H is a         *)
(* function on 0..H-1, and analysis_indices is a sequence of such indices. *)
(***************************************************************************)
EXTENDS Integers, Sequences, FiniteSets, TLC

VARIABLES
    \* ---- the scenario's inputs and its shared objects
    value_streams,      \* self.service_agg.value_streams.keys()
    heap,               \* the DER list objects, by reference
    poi_der_list,       \* self.poi.der_list: a reference into heap
    critical_load,      \* reliability_mod.critical_load.values, on 0..H-1
    generation,         \* generation + total_pv_max of get_der_limits, per step
    outage_duration,    \* reliability_mod.outage_duration, in time steps
    soc_init,           \* reliability_mod.soc_init, in halves (1: 50%, 2: 100%)
    \* ---- Reliability_based_sizing_module's locals
    rel_pc,             \* where the module is
    der_list,           \* the local der_list: a reference into heap (0: unset)
    analysis_indices,   \* the CandidateOutageSet
    IsReliable,         \* 'No' | 'Yes'
    First_failure_ind,  \* of the last verification sweep
    rounds,             \* calls of reliability_sizing_for_analy_indices so far
    \* ---- optimize_problem_loop
    post_facto_only,    \* the Reliability value stream's post_facto_only
    incl_binary,        \* self.incl_binary
    n_periods,          \* len(self.optimization_levels.predictive.unique())
    opt_pc,             \* where optimize_problem_loop is
    opt_period,         \* the loop variable: the window being processed
    opt_return,         \* what optimize_problem_loop returned ("None": not yet)
    set_up_calls,       \* the arguments of each set_up_optimization call
    objective_values,   \* self.objective_values: one row per solved window
    degrade_data,       \* per DER: the degradation calc_degradation recorded
    usable_energy,      \* per DER: the energy bound apply_past_degredation set
    variable_results,   \* the windows whose results were saved
    alpha,              \* the local alpha: the annuity scalar
    window_objective,   \* the local objective_values of the last solve
    log,                \* the loop's steps in the order they ran
    \* ---- one ESSSizing object
    ess_pc,             \* "New", "Built" (constructed), "Solved"
    ess_params,         \* the params dict the object is built from
    ess,                \* the object's attributes
    ess_ret,            \* the last call of one of its methods, and its result
    \* ---- one DieselSizing object
    gen_pc,             \* "New", "Built", "Constrained", "Solved"
    gen_params,         \* the params dict the object is built from
    gen,                \* the object's attributes
    gen_constraints,    \* what build_master_constraints returned last
    ice_gen,            \* variables['ice_gen'] of the window, as solved
    gen_ret             \* the last call of sizing_summary, and its result

rel_vars == <<rel_pc, der_list, analysis_indices, IsReliable, First_failure_ind, rounds>>
rel_input_vars == <<critical_load, generation, outage_duration, soc_init>>
opt_input_vars == <<post_facto_only, incl_binary, n_periods>>
opt_vars == <<opt_pc, opt_period, opt_return, set_up_calls, objective_values,
              degrade_data, usable_energy, variable_results, alpha,
              window_objective, log>>
input_vars == <<value_streams, rel_input_vars, opt_input_vars>>
ess_vars == <<ess_pc, ess_params, ess, ess_ret>>
gen_vars == <<gen_pc, gen_params, gen, gen_constraints, ice_gen, gen_ret>>
vars == <<input_vars, heap, poi_der_list, rel_vars, opt_vars, ess_vars, gen_vars>>

----------------------------------------------------------------------------
\* Bounds of the model.

\* The short horizon; the long one is top_n_outages + 1.
SmallH == 3
\* A sized energy rating is 2 * e kWh with e in 0..MaxEneBlocks.
MaxEneBlocks == 3
\* At most this many steps of the series carry the high load.
MaxPeaks == 2
\* Sizing rounds the model follows (the code's while loop has no cap).
MaxRounds == 5

\* top_n_outages = 10
top_n_outages == 10

\* The two levels of the critical load, the generation that may cover it, and
\* the fixed power rating of the storage.
LoLoad == 0
HiLoad == 2
MaxGen == 1
PowerRated == 2
\* Optimization windows of a run, the degradation one window can record, and
\* the objective cost one window can return.
MaxPeriods == 2
MaxDegradation == 1
MaxCost == 1
\* A solve sets a decision variable to a value in -1..MaxSolved that the
\* constraints allow.
MaxSolved == 1
\* CostBenefitAnalysis.annuity_scalar(**self.finance_inputs), in sizing mode.
AnnuityScalar == 3
\* In the end-to-end scenario a sized energy rating is EndToEndLoad * b kWh
\* with b in 0..MaxSizedBlocks.
MaxSizedBlocks == 11
\* A generator: n_min and n_max are in 0..MaxUnits, the rated power of one
\* unit in 1..MaxUnitPower, its two cost coefficients in 1..MaxUnitCost; a
\* window has 1..MaxWindow steps, and a solve sets the output of a step to a
\* value in -1..MaxOutput.
MaxUnits == 2
MaxUnitPower == 2
MaxUnitCost == 2
MaxWindow == 2
MaxOutput == 2

----------------------------------------------------------------------------
\* Helpers.

Min(a, b) == IF a <= b THEN a ELSE b

IsPrefix(s, t) == Len(s) <= Len(t) /\ \A i \in 1..Len(s) : s[i] = t[i]

NoDuplicates(s) == \A i, j \in 1..Len(s) : i # j => s[i] # s[j]

\* A rating is a literal number or a decision variable, cvx.Variable(name=...,
\* integer=True). Two variables are the same object when they have the same
\* name; a variable's value is None until a solve sets it.
Literal(v) == [var |-> FALSE, name |-> "", solved |-> TRUE, value |-> v]
Variable(name) == [var |-> TRUE, name |-> name, solved |-> FALSE, value |-> 0]
Solved(rating, v) == [rating EXCEPT !.solved = TRUE, !.value = v]

\* cvx.NonPos(-x): the constraint x >= 0
NonPosNeg(rating) == [constraint |-> "NonPos", negated |-> rating.name]

ESS == "Energy Storage System"

\* ESSSizing.__init__: the object built from params.
ESSSizing(params) ==
    LET size_energy == params.ene_max_rated = 0
        size_both == params.ch_max_rated = 0 /\ params.dis_max_rated = 0
        size_ch == ~size_both /\ params.ch_max_rated = 0
        size_dis == ~size_both /\ ~size_ch /\ params.dis_max_rated = 0
        ene == IF size_energy THEN Variable("Energy_cap")
               ELSE Literal(params.ene_max_rated)
        ch == IF size_both THEN Variable("power_cap")
              ELSE IF size_ch THEN Variable("charge_power_cap")
              ELSE Literal(params.ch_max_rated)
        dis == IF size_both THEN ch
               ELSE IF size_dis THEN Variable("discharge_power_cap")
               ELSE Literal(params.dis_max_rated)
        drop_energy == /\ size_energy
                       /\ params.incl_energy_limits
                       /\ params.limit_energy_max # "None"
        drop_charge == /\ size_both \/ size_ch
                       /\ params.incl_charge_limits
                       /\ params.limit_charge_max # "None"
        drop_discharge == /\ size_both \/ size_dis
                          /\ params.incl_discharge_limits
                          /\ params.limit_discharge_max # "None"
    IN [technology_type |-> ESS,
        ene_max_rated |-> ene,
        ch_max_rated |-> ch,
        dis_max_rated |-> dis,
        size_constraints |->
            (IF size_energy THEN <<NonPosNeg(ene)>> ELSE <<>>)
            \o (IF size_both \/ size_ch THEN <<NonPosNeg(ch)>> ELSE <<>>)
            \o (IF size_dis THEN <<NonPosNeg(dis)>> ELSE <<>>),
        llsoc |-> params.llsoc,
        ulsoc |-> params.ulsoc,
        effective_soe_min |-> [coef |-> params.llsoc, of |-> ene],
        effective_soe_max |-> [coef |-> params.ulsoc, of |-> ene],
        incl_energy_limits |-> params.incl_energy_limits,
        incl_charge_limits |-> params.incl_charge_limits,
        incl_discharge_limits |-> params.incl_discharge_limits,
        limit_energy_max |->
            IF drop_energy THEN "None" ELSE params.limit_energy_max,
        limit_charge_max |->
            IF drop_charge THEN "None" ELSE params.limit_charge_max,
        limit_discharge_max |->
            IF drop_discharge THEN "None" ELSE params.limit_discharge_max,
        errors |->
            (IF drop_energy THEN <<"Ignoring energy max time series">> ELSE <<>>)
            \o (IF drop_charge THEN <<"Ignoring charge max time series">> ELSE <<>>)
            \o (IF drop_discharge
                THEN <<"Ignoring discharge max time series">> ELSE <<>>)]

\* The params of a storage with the given ratings and no time-series limits.
Params(ene, ch, dis) ==
    [ene_max_rated |-> ene, ch_max_rated |-> ch, dis_max_rated |-> dis,
     llsoc |-> 0, ulsoc |-> 100,
     incl_energy_limits |-> FALSE, limit_energy_max |-> "None",
     incl_charge_limits |-> FALSE, limit_charge_max |-> "None",
     incl_discharge_limits |-> FALSE, limit_discharge_max |-> "None"]

\* A generator of the fleet: its ratings are literals here.
Generator ==
    [technology_type |-> "Generator", ene_max_rated |-> Literal(0),
     ch_max_rated |-> Literal(0), dis_max_rated |-> Literal(PowerRated),
     effective_soe_min |-> [coef |-> 0, of |-> Literal(0)],
     effective_soe_max |-> [coef |-> 0, of |-> Literal(0)]]

\* der.being_sized(): a rating input as zero is a decision variable.
being_sized(der) == der.ene_max_rated.var \/ der.ch_max_rated.var \/ der.dis_max_rated.var

\* self.poi.is_sizing_optimization: some DER of the fleet is being sized.
is_sizing_optimization ==
    \E i \in DOMAIN heap[poi_der_list] : being_sized(heap[poi_der_list][i])

\* get_der_limits(der_list): ess_properties, the storage ratings summed.
RECURSIVE ess_properties(_)
ess_properties(fleet) ==
    IF fleet = <<>>
    THEN [energy_rating |-> 0, ch_max |-> 0, dis_max |-> 0]
    ELSE LET rest == ess_properties(Tail(fleet))
             der == Head(fleet)
         IN IF der.technology_type = ESS
            THEN [energy_rating |-> rest.energy_rating + der.ene_max_rated.value,
                  ch_max |-> rest.ch_max + der.ch_max_rated.value,
                  dis_max |-> rest.dis_max + der.dis_max_rated.value]
            ELSE rest

H == Cardinality(DOMAIN critical_load)

----------------------------------------------------------------------------
\* Reliability_based_sizing_module.

\* A slip of the deep copy: der_list = self.poi.der_list, the same object.
deepcopy_alias(ref) == ref

\* copy.deepcopy(self.poi.der_list): a new object with the same contents.
deepcopy(ref) == ref + 1

\* max_load_demand_unserved[t]; the loads are whole kW, which np.around(...,
\* decimals=5) leaves as they are.
max_load_demand_unserved(t) == critical_load[t] - generation

\* The steps by unserved demand, largest first, equal ones in time order:
\* what a stable sort gives.
RECURSIVE argsort_desc(_)
argsort_desc(S) ==
    IF S = {} THEN <<>>
    ELSE LET t == CHOOSE x \in S : \A y \in S :
                      \/ max_load_demand_unserved(x) > max_load_demand_unserved(y)
                      \/ /\ max_load_demand_unserved(x) = max_load_demand_unserved(y)
                         /\ x <= y
         IN <<t>> \o argsort_desc(S \ {t})

\* The steps by unserved demand, largest first, equal ones in reverse time
\* order.
RECURSIVE argsort_desc_ties_reversed(_)
argsort_desc_ties_reversed(S) ==
    IF S = {} THEN <<>>
    ELSE LET t == CHOOSE x \in S : \A y \in S :
                      \/ max_load_demand_unserved(x) > max_load_demand_unserved(y)
                      \/ /\ max_load_demand_unserved(x) = max_load_demand_unserved(y)
                         /\ x >= y
         IN <<t>> \o argsort_desc_ties_reversed(S \ {t})

\* np.argsort(-1 * max_load_demand_unserved): the default kind, quicksort, is
\* not stable, so the order of steps with equal unserved demand is the
\* build's; two of the orders it can give are followed.
argsort(S) == {argsort_desc(S), argsort_desc_ties_reversed(S)}

\* A slip of the slice: indices[1:top_n_outages], without the worst step.
top_n_without_first(indices) == SubSeq(indices, 2, Min(top_n_outages, Len(indices)))

\* indices[:top_n_outages]
top_n(indices) == SubSeq(indices, 1, Min(top_n_outages, Len(indices)))

\* reliability_mod.simulate_outage(reliability_check[t:], demand_left[t:],
\* outage_duration, ess_properties, soc[t]): the number of steps survived
\* (the length of the returned soc profile), k of them survived already with
\* soe kWh left.
RECURSIVE simulate_outage(_, _, _, _)
simulate_outage(t, k, soe, props) ==
    IF k >= outage_duration \/ t + k >= H THEN k
    ELSE LET demand_left == max_load_demand_unserved(t + k)
         IN IF demand_left > 0
            THEN IF demand_left <= props.dis_max /\ demand_left <= soe
                 THEN simulate_outage(t, k + 1, soe - demand_left, props)
                 ELSE k
            ELSE simulate_outage(t, k + 1,
                     Min(props.energy_rating,
                         soe + Min(0 - demand_left, props.ch_max)), props)

\* soc[t] = soc_init * ess_properties['energy rating']
soc(props) == (soc_init * props.energy_rating) \div 2

\* len(soc_profile) for an outage starting at step t
longest_outage(t, props) == simulate_outage(t, 0, soc(props), props)

\* The two nested ifs of the sweep: a genuine failure at start step t.
fails_at(t, props) ==
    /\ longest_outage(t, props) < outage_duration
    /\ longest_outage(t, props) < H - t

\* The sweep: First_failure_ind after the inner while loop.
sweep(props) ==
    IF \E t \in 0..(H - 1) : fails_at(t, props)
    THEN CHOOSE t \in 0..(H - 1) :
             fails_at(t, props) /\ \A u \in 0..(t - 1) : ~fails_at(u, props)
    ELSE -1

\* reliability_sizing_for_analy_indices: the fleet with every sized energy
\* rating at the value the solver returned.
sized(fleet, e) ==
    [i \in DOMAIN fleet |->
        IF fleet[i].ene_max_rated.var
        THEN [fleet[i] EXCEPT !.ene_max_rated = Solved(@, e),
                              !.effective_soe_min.of = Solved(@, e),
                              !.effective_soe_max.of = Solved(@, e)]
        ELSE fleet[i]]

\* der_inst.set_size(): every rating becomes its solved number.
set_size(fleet) ==
    [i \in DOMAIN fleet |->
        [fleet[i] EXCEPT !.ene_max_rated = Literal(@.value),
                         !.ch_max_rated = Literal(@.value),
                         !.dis_max_rated = Literal(@.value),
                         !.effective_soe_min.of = Literal(@.value),
                         !.effective_soe_max.of = Literal(@.value)]]

\* if First_failure_ind>0
found_failure(ffi) == ffi > 0

\* A slip of np.append: the failing index is put in front.
np_append_in_front(indices, ffi) == <<ffi>> \o indices

\* np.append(analysis_indices, First_failure_ind)
np_append(indices, ffi) == Append(indices, ffi)

\* A slip of line 167: the test for the sizing mode is missing.
RelEntry_without_sizing_test ==
    /\ rel_pc = "Entry"
    /\ IF "Reliability" \notin value_streams
       THEN /\ rel_pc' = "Returned"
            /\ UNCHANGED <<heap, der_list, analysis_indices, IsReliable>>
       ELSE /\ der_list' = deepcopy(poi_der_list)
            /\ heap' = [heap EXCEPT ![deepcopy(poi_der_list)] = heap[poi_der_list]]
            /\ \E indices \in argsort(0..(H - 1)) :
                   analysis_indices' = top_n(indices)
            /\ IsReliable' = "No"
            /\ rel_pc' = "Sizing"
    /\ UNCHANGED <<input_vars, opt_vars, ess_vars, gen_vars, poi_der_list, First_failure_ind, rounds>>

\* Lines 165-190: the early return, the deep copy, the first candidates.
RelEntry ==
    /\ rel_pc = "Entry"
    /\ IF "Reliability" \notin value_streams \/ ~is_sizing_optimization
       THEN /\ rel_pc' = "Returned"
            /\ UNCHANGED <<heap, der_list, analysis_indices, IsReliable>>
       ELSE /\ der_list' = deepcopy(poi_der_list)
            /\ heap' = [heap EXCEPT ![deepcopy(poi_der_list)] = heap[poi_der_list]]
            /\ \E indices \in argsort(0..(H - 1)) :
                   analysis_indices' = top_n(indices)
            /\ IsReliable' = "No"
            /\ rel_pc' = "Sizing"
    /\ UNCHANGED <<input_vars, opt_vars, ess_vars, gen_vars, poi_der_list, First_failure_ind, rounds>>

\* Line 194: one sizing round; the solver's outcome is any energy rating.
Sizing ==
    /\ rel_pc = "Sizing"
    /\ IsReliable = "No"
    /\ rounds < MaxRounds
    /\ \E e \in 0..MaxEneBlocks :
           heap' = [heap EXCEPT ![der_list] = sized(@, 2 * e)]
    /\ rounds' = rounds + 1
    /\ rel_pc' = "Verifying"
    /\ UNCHANGED <<input_vars, opt_vars, ess_vars, gen_vars, poi_der_list, der_list, analysis_indices,
                   IsReliable, First_failure_ind>>

\* Line 194, with the sizing round as the design describes it: the fleet is
\* sized against the current candidates, so the outage that starts at each
\* of them is survived (for the required duration, or to the end of the
\* data); which of the energy ratings that do so is returned is the
\* solver's business.
SizingAgainstCandidates ==
    /\ rel_pc = "Sizing"
    /\ IsReliable = "No"
    /\ rounds < MaxRounds
    /\ \E b \in 0..MaxSizedBlocks :
           LET fleet == sized(heap[der_list], critical_load[0] * b)
           IN /\ \A i \in 1..Len(analysis_indices) :
                     ~fails_at(analysis_indices[i], ess_properties(fleet))
              /\ heap' = [heap EXCEPT ![der_list] = fleet]
    /\ rounds' = rounds + 1
    /\ rel_pc' = "Verifying"
    /\ UNCHANGED <<input_vars, opt_vars, ess_vars, gen_vars, poi_der_list, der_list,
                   analysis_indices, IsReliable, First_failure_ind>>

\* Lines 196-216: the verification sweep and the loop's decision.
Verifying ==
    /\ rel_pc = "Verifying"
    /\ First_failure_ind' = sweep(ess_properties(heap[der_list]))
    /\ IF found_failure(First_failure_ind')
       THEN /\ analysis_indices' = np_append(analysis_indices, First_failure_ind')
            /\ rel_pc' = "Sizing"
            /\ UNCHANGED IsReliable
       ELSE /\ IsReliable' = "Yes"
            /\ rel_pc' = "Converged"
            /\ UNCHANGED analysis_indices
    /\ UNCHANGED <<input_vars, opt_vars, ess_vars, gen_vars, heap, poi_der_list, der_list, rounds>>

\* Lines 219-220: der_inst.set_size() fixes each rating to its solved value.
SetSize ==
    /\ rel_pc = "Converged"
    /\ heap' = [heap EXCEPT ![der_list] = set_size(@)]
    /\ rel_pc' = "SizeSet"
    /\ UNCHANGED <<input_vars, opt_vars, ess_vars, gen_vars, poi_der_list, der_list, analysis_indices,
                   IsReliable, First_failure_ind, rounds>>

\* A slip of line 223: the minimum state of energy is taken for a sizing
\* decision, and the loop is entered again.
MinSoe_resizing ==
    /\ rel_pc = "SizeSet"
    /\ rel_pc' = "Sizing"
    /\ IsReliable' = "No"
    /\ UNCHANGED <<input_vars, opt_vars, ess_vars, gen_vars, heap, poi_der_list, der_list, analysis_indices,
                   First_failure_ind, rounds>>

\* Line 223: reliability_mod.reliability_min_soe_iterative(mask, der_list),
\* which reads the sized fleet and records the minimum state of energy in the
\* reliability value stream.
MinSoe ==
    /\ rel_pc = "SizeSet"
    /\ rel_pc' = "MinSoeDone"
    /\ UNCHANGED <<input_vars, opt_vars, ess_vars, gen_vars, heap, poi_der_list, der_list, analysis_indices,
                   IsReliable, First_failure_ind, rounds>>

\* Line 227: self.poi.der_list = der_list
Publish ==
    /\ rel_pc = "MinSoeDone"
    /\ poi_der_list' = der_list
    /\ rel_pc' = "Published"
    /\ UNCHANGED <<input_vars, opt_vars, ess_vars, gen_vars, heap, der_list, analysis_indices,
                   IsReliable, First_failure_ind, rounds>>

----------------------------------------------------------------------------
\* ESSSizing's methods.

\* What a method returns: an object it holds, a number, or None.
Obj(x) == [kind |-> "object", obj |-> x, num |-> 0]
Num(n) == [kind |-> "number", obj |-> "", num |-> n]
NoneResult == [kind |-> "None", obj |-> "", num |-> 0]

\* Python's `a is b` for two ratings.
SameObject(a, b) ==
    /\ a.var = b.var
    /\ a.var => a.name = b.name
    /\ ~a.var => a.value = b.value

\* try: x.value / except AttributeError: x
resolve(rating) ==
    IF rating.var /\ ~rating.solved THEN NoneResult ELSE Num(rating.value)

\* ESSSizing.discharge_capacity
discharge_capacity(self, solution) ==
    IF ~solution THEN Obj(self.dis_max_rated) ELSE resolve(self.dis_max_rated)

\* ESSSizing.charge_capacity
charge_capacity(self, solution) ==
    IF ~solution THEN Obj(self.dis_max_rated) ELSE resolve(self.ch_max_rated)

\* ESSSizing.energy_capacity
energy_capacity(self, solution) ==
    IF ~solution THEN Obj(self.ene_max_rated) ELSE resolve(self.ene_max_rated)

\* expression.value for llsoc * ene_max_rated (a number when the rating is one)
resolve_soe(expr) ==
    IF expr.of.var /\ ~expr.of.solved THEN NoneResult
    ELSE Num(expr.coef * expr.of.value)

\* ESSSizing.operational_max_energy
operational_max_energy(self, solution) ==
    IF ~solution THEN Obj(self.effective_soe_max)
    ELSE resolve_soe(self.effective_soe_max)

\* ESSSizing.operational_min_energy
operational_min_energy(self, solution) ==
    IF ~solution THEN Obj(self.effective_soe_min)
    ELSE resolve_soe(self.effective_soe_min)

\* What a method call can end in besides a result: an exception that leaves
\* the method uncaught.
Raised(exc) == [kind |-> "raised", obj |-> exc, num |-> 0]

\* a / b of two numbers with b # 0 (Python's true division), kept exact.
Ratio(a, b) == [kind |-> "ratio", obj |-> "", num |-> a, den |-> b]

\* A float that is no number: "inf" or "nan".
Float(x) == [kind |-> "float", obj |-> x, num |-> 0]

\* a / 0: two Python numbers raise ZeroDivisionError; when one of them is a
\* numpy number (the .value of a solved variable) the quotient is inf, or nan
\* for 0 / 0, with a warning only.
division_by_zero(a) ==
    {Raised("ZeroDivisionError"), IF a = 0 THEN Float("nan") ELSE Float("inf")}

\* ESSSizing.calculate_duration: the outcomes of
\* energy_rated / self.discharge_capacity(solution=True)
calculate_duration(self) ==
    LET energy_rated == resolve(self.ene_max_rated)
        discharge == discharge_capacity(self, TRUE)
    IN IF energy_rated.kind = "None" \/ discharge.kind = "None"
       THEN {Raised("TypeError")}
       ELSE IF discharge.num = 0
            THEN division_by_zero(energy_rated.num)
            ELSE {Ratio(energy_rated.num, discharge.num)}

\* sizing_results['Duration (hours)'] > 24
longer_than_a_day(duration) ==
    \/ duration.kind = "ratio" /\ duration.num > 24 * duration.den
    \/ duration = Float("inf")

\* ESSSizing.sizing_summary, for the outcome of its calculate_duration call:
\* the sizing results and what it logged, or the exception of the call.
sizing_summary(self, duration) ==
    IF duration.kind = "raised" THEN duration
    ELSE [kind |-> "summary",
          obj |-> [energy_rating |-> energy_capacity(self, TRUE),
                   charge_rating |-> charge_capacity(self, TRUE),
                   discharge_rating |-> discharge_capacity(self, TRUE),
                   duration |-> duration,
                   logged |-> IF longer_than_a_day(duration)
                              THEN <<"The duration is greater than 24 hours!">>
                              ELSE <<>>],
          num |-> 0]

\* EnergyStorage.constraints(mask): the storage's physical and service
\* constraints for the window, on its dispatch variables.
EnergyStorage_constraints(mask) ==
    <<[constraint |-> "physical", negated |-> "", mask |-> mask]>>

\* A slip of lines 162-166: the size constraints are not added.
constraints_without_size_constraints(self, mask) ==
    EnergyStorage_constraints(mask)

\* ESSSizing.constraints
constraints(self, mask) ==
    EnergyStorage_constraints(mask) \o self.size_constraints

\* A list a method returns.
ListResult(list) == [kind |-> "list", obj |-> list, num |-> 0]

VariableNames == {"Energy_cap", "power_cap", "charge_power_cap", "discharge_power_cap"}

\* The names of the decision variables the object holds.
variables_of(self) ==
    {r.name : r \in {x \in {self.ene_max_rated, self.ch_max_rated,
                              self.dis_max_rated} : x.var}}

\* The rating after a solve that set the variables to val.
after_solve(rating, val) ==
    IF rating.var THEN Solved(rating, val[rating.name]) ELSE rating

\* A slip of lines 52-55: the discharge rating gets a variable of its own.
ESSConstruct_separate_power_variables ==
    /\ ess_pc = "New"
    /\ ess' = IF ess_params.ch_max_rated = 0 /\ ess_params.dis_max_rated = 0
              THEN [ESSSizing(ess_params) EXCEPT
                       !.dis_max_rated = Variable("discharge_power_cap"),
                       !.size_constraints =
                           Append(@, NonPosNeg(Variable("discharge_power_cap")))]
              ELSE ESSSizing(ess_params)
    /\ ess_pc' = "Built"
    /\ UNCHANGED <<input_vars, heap, poi_der_list, rel_vars, opt_vars, gen_vars,
                   ess_params, ess_ret>>

\* A slip of lines 63-75: the two tests read the other direction's rating.
ESSConstruct_swapped_directions ==
    /\ ess_pc = "New"
    /\ ess' = ESSSizing([ess_params EXCEPT
                            !.ch_max_rated = ess_params.dis_max_rated,
                            !.dis_max_rated = ess_params.ch_max_rated])
    /\ ess_pc' = "Built"
    /\ UNCHANGED <<input_vars, heap, poi_der_list, rel_vars, opt_vars, gen_vars,
                   ess_params, ess_ret>>

\* A slip of lines 45-46: the SOE limits are left as EnergyStorage.__init__
\* computed them, from the energy rating input as zero.
ESSConstruct_stale_soe_limits ==
    /\ ess_pc = "New"
    /\ ess' = IF ess_params.ene_max_rated = 0
              THEN [ESSSizing(ess_params) EXCEPT
                       !.effective_soe_min.of = Literal(0),
                       !.effective_soe_max.of = Literal(0)]
              ELSE ESSSizing(ess_params)
    /\ ess_pc' = "Built"
    /\ UNCHANGED <<input_vars, heap, poi_der_list, rel_vars, opt_vars, gen_vars,
                   ess_params, ess_ret>>

\* A slip of lines 52-55: the shared variable gets a second constraint, for
\* the discharge rating.
ESSConstruct_constraint_per_rating ==
    /\ ess_pc = "New"
    /\ ess' = IF ess_params.ch_max_rated = 0 /\ ess_params.dis_max_rated = 0
              THEN [ESSSizing(ess_params) EXCEPT
                       !.size_constraints =
                           Append(@, NonPosNeg(Variable("power_cap")))]
              ELSE ESSSizing(ess_params)
    /\ ess_pc' = "Built"
    /\ UNCHANGED <<input_vars, heap, poi_der_list, rel_vars, opt_vars, gen_vars,
                   ess_params, ess_ret>>

\* ESSSizing(ess_type, params)
ESSConstruct ==
    /\ ess_pc = "New"
    /\ ess' = ESSSizing(ess_params)
    /\ ess_pc' = "Built"
    /\ UNCHANGED <<input_vars, heap, poi_der_list, rel_vars, opt_vars, gen_vars,
                   ess_params, ess_ret>>

\* A solve of a problem that holds constraints(mask): every decision variable
\* of the object gets an integer value that the constraints on it allow.
ESSSolve ==
    /\ ess_pc = "Built"
    /\ \E mask \in 1..MaxPeriods :
       \E val \in [VariableNames -> (-1)..MaxSolved] :
           /\ \A n \in VariableNames \ variables_of(ess) : val[n] = 0
           /\ \A i \in DOMAIN constraints(ess, mask) :
                  constraints(ess, mask)[i].constraint = "NonPos" =>
                      val[constraints(ess, mask)[i].negated] >= 0
           /\ ess' = [ess EXCEPT
                         !.ene_max_rated = after_solve(@, val),
                         !.ch_max_rated = after_solve(@, val),
                         !.dis_max_rated = after_solve(@, val),
                         !.effective_soe_min.of = after_solve(@, val),
                         !.effective_soe_max.of = after_solve(@, val)]
    /\ ess_pc' = "Solved"
    /\ UNCHANGED <<input_vars, heap, poi_der_list, rel_vars, opt_vars, gen_vars,
                   ess_params, ess_ret>>

\* A slip of the try/except of lines 86-90: the resolved value is written back
\* into the attribute.
Called_resolving_in_place(fn, solution, result) ==
    /\ ess_pc \in {"Built", "Solved"}
    /\ ess_ret' = [fn |-> fn, solution |-> solution, result |-> result,
                   at |-> ess_pc]
    /\ ess' = IF solution /\ result.kind = "number"
              THEN [ess EXCEPT !.ene_max_rated = Literal(@.value),
                               !.ch_max_rated = Literal(@.value),
                               !.dis_max_rated = Literal(@.value)]
              ELSE ess
    /\ UNCHANGED <<input_vars, heap, poi_der_list, rel_vars, opt_vars, gen_vars,
                   ess_pc, ess_params>>

Called(fn, solution, result) ==
    /\ ess_pc \in {"Built", "Solved"}
    /\ ess_ret' = [fn |-> fn, solution |-> solution, result |-> result,
                   at |-> ess_pc]
    /\ UNCHANGED <<input_vars, heap, poi_der_list, rel_vars, opt_vars, gen_vars,
                   ess_pc, ess_params, ess>>

CallDischargeCapacity ==
    \E solution \in BOOLEAN :
        Called("discharge_capacity", solution, discharge_capacity(ess, solution))

CallChargeCapacity ==
    \E solution \in BOOLEAN :
        Called("charge_capacity", solution, charge_capacity(ess, solution))

CallEnergyCapacity ==
    \E solution \in BOOLEAN :
        Called("energy_capacity", solution, energy_capacity(ess, solution))

CallOperationalMaxEnergy ==
    \E solution \in BOOLEAN :
        Called("operational_max_energy", solution,
               operational_max_energy(ess, solution))

CallOperationalMinEnergy ==
    \E solution \in BOOLEAN :
        Called("operational_min_energy", solution,
               operational_min_energy(ess, solution))

CallConstraints ==
    \E mask \in 1..MaxPeriods :
        Called("constraints", FALSE, ListResult(constraints(ess, mask)))

CallCalculateDuration ==
    /\ ess_pc \in {"Built", "Solved"}
    /\ \E duration \in calculate_duration(ess) :
           Called("calculate_duration", TRUE, duration)

CallSizingSummary ==
    /\ ess_pc \in {"Built", "Solved"}
    /\ \E duration \in calculate_duration(ess) :
           Called("sizing_summary", TRUE, sizing_summary(ess, duration))

----------------------------------------------------------------------------
\* DieselSizing.

\* An affine expression in the unit count n: n_coef * n + const.
Affine(n_coef, const) == [n_coef |-> n_coef, const |-> const]

\* DieselSizing.__init__: the object built from params; p_max, capital_cost
\* and ccost_kw are what storagevet.Diesel.__init__ read from params.
DieselSizing(params) ==
    [n_min |-> params.n_min,
     n_max |-> params.n_max,
     n |-> Variable("generators"),
     p_max |-> params.p_max,
     capital_cost |-> params.capital_cost,
     ccost_kw |-> params.ccost_kw,
     capex |-> Affine(params.capital_cost, params.capital_cost * params.p_max)]

\* cvx.NonPos(const + n_coef * n + gen_coef * ice_gen): over every step of
\* the window when ice_gen is in it (steps), else one scalar constraint.
NonPos(const, n_coef, gen_coef, steps) ==
    [constraint |-> "NonPos", const |-> const, n_coef |-> n_coef,
     gen_coef |-> gen_coef, steps |-> steps]

\* storagevet.Diesel.build_master_constraints: the generator's physical
\* constraints on its output, here that the output is not negative.
Diesel_build_master_constraints(steps) == <<NonPos(0, 0, -1, steps)>>

\* A slip of lines 55-57: the lower bound on the unit count is missing.
build_master_constraints_without_lower_bound(self, steps) ==
    Diesel_build_master_constraints(steps)
    \o <<NonPos(0 - self.n_max, 1, 0, {})>>
    \o <<NonPos(0, 0 - self.p_max, 1, steps)>>

\* DieselSizing.build_master_constraints, for the steps the mask selects
build_master_constraints(self, steps) ==
    Diesel_build_master_constraints(steps)
    \o <<NonPos(self.n_min, -1, 0, {})>>
    \o <<NonPos(0 - self.n_max, 1, 0, {})>>
    \o <<NonPos(0, 0 - self.p_max, 1, steps)>>

\* A constraint holds for a unit count and the outputs of the window.
satisfies(c, n, output) ==
    IF c.gen_coef = 0
    THEN c.const + c.n_coef * n <= 0
    ELSE \A t \in c.steps : c.const + c.n_coef * n + c.gen_coef * output[t] <= 0

\* DieselSizing(name, params)
GenConstruct ==
    /\ gen_pc = "New"
    /\ gen' = DieselSizing(gen_params)
    /\ gen_pc' = "Built"
    /\ UNCHANGED <<input_vars, heap, poi_der_list, rel_vars, opt_vars, ess_vars,
                   gen_params, gen_constraints, ice_gen, gen_ret>>

\* build_master_constraints(variables, mask, reservations) for a window
GenBuildMasterConstraints ==
    /\ gen_pc \in {"Built", "Constrained"}
    /\ \E w \in 1..MaxWindow :
           gen_constraints' = build_master_constraints(gen, 0..(w - 1))
    /\ gen_pc' = "Constrained"
    /\ UNCHANGED <<input_vars, heap, poi_der_list, rel_vars, opt_vars, ess_vars,
                   gen_params, gen, ice_gen, gen_ret>>

\* A solve of a problem that holds the window's constraints: the unit count
\* is any integer, the outputs any values, that all of them allow.
GenSolve ==
    /\ gen_pc = "Constrained"
    /\ \E n \in (-1)..(MaxUnits + 1) :
       \E output \in [gen_constraints[1].steps -> (-1)..MaxOutput] :
           /\ \A i \in DOMAIN gen_constraints :
                  satisfies(gen_constraints[i], n, output)
           /\ gen' = [gen EXCEPT !.n = Solved(@, n)]
           /\ ice_gen' = output
    /\ gen_pc' = "Solved"
    /\ UNCHANGED <<input_vars, heap, poi_der_list, rel_vars, opt_vars, ess_vars,
                   gen_params, gen_constraints, gen_ret>>

\* DieselSizing.sizing_summary: the outcomes of the call. n is self.n.value
\* (None before a solve); sizing_data is [self.p_max/n, self.capital_cost,
\* self.ccost_kw, n], and an exception of the division leaves the method.
DieselSizing_sizing_summary(self) ==
    LET n == resolve(self.n)
    IN IF n.kind = "None" THEN {Raised("TypeError")}
       ELSE IF n.num = 0
            THEN {IF q.kind = "raised" THEN q
                  ELSE [kind |-> "summary",
                        obj |-> [power_capacity |-> q,
                                 capital_cost |-> self.capital_cost,
                                 capital_cost_per_kw |-> self.ccost_kw,
                                 quantity |-> n.num],
                        num |-> 0] : q \in division_by_zero(self.p_max)}
            ELSE {[kind |-> "summary",
                   obj |-> [power_capacity |-> Ratio(self.p_max, n.num),
                            capital_cost |-> self.capital_cost,
                            capital_cost_per_kw |-> self.ccost_kw,
                            quantity |-> n.num],
                   num |-> 0]}

\* A call of sizing_summary() on the generator.
GenSizingSummary ==
    /\ gen_pc \in {"Built", "Constrained", "Solved"}
    /\ \E result \in DieselSizing_sizing_summary(gen) :
           gen_ret' = [fn |-> "sizing_summary", result |-> result, at |-> gen_pc]
    /\ UNCHANGED <<input_vars, heap, poi_der_list, rel_vars, opt_vars, ess_vars,
                   gen_pc, gen_params, gen, gen_constraints, ice_gen>>

----------------------------------------------------------------------------
\* optimize_problem_loop.

\* self.service_agg.is_whole_sale_market()
is_whole_sale_market == value_streams \cap {"FR", "LF", "SR", "NSR"} # {}

\* self.service_agg.is_deferral_only()
is_deferral_only == value_streams = {"Deferral"}

\* self.service_agg.post_facto_reliability_only()
post_facto_reliability_only == value_streams = {"Reliability"} /\ post_facto_only

\* self.poi.is_dcp_error(binary): a power rating is sized under the binary
\* formulation.
is_dcp_error(binary) ==
    /\ binary
    /\ \E i \in DOMAIN heap[poi_der_list] :
           \/ heap[poi_der_list][i].ch_max_rated.var
           \/ heap[poi_der_list][i].dis_max_rated.var

\* A slip of lines 106-124: the check of line 122 is missing.
entry_outcome_without_skip ==
    IF is_sizing_optimization /\ is_whole_sale_market THEN "False"
    ELSE IF is_sizing_optimization /\ post_facto_reliability_only THEN "False"
    ELSE IF is_sizing_optimization /\ is_dcp_error(incl_binary) THEN "False"
    ELSE "Loop"

\* A slip of lines 106-124: the check of line 122 comes first.
entry_outcome_skip_first ==
    IF is_deferral_only \/ post_facto_reliability_only THEN "True"
    ELSE IF is_sizing_optimization /\ is_whole_sale_market THEN "False"
    ELSE IF is_sizing_optimization /\ is_dcp_error(incl_binary) THEN "False"
    ELSE "Loop"

\* A slip of lines 106-124: the check of line 116 is missing.
entry_outcome_without_dcp_check ==
    IF is_sizing_optimization /\ is_whole_sale_market THEN "False"
    ELSE IF is_sizing_optimization /\ post_facto_reliability_only THEN "False"
    ELSE IF is_deferral_only \/ post_facto_reliability_only THEN "True"
    ELSE "Loop"

\* Lines 106-124: what the checks before the loop decide: "False" and "True"
\* are returned at once, "Loop" goes on to the windows.
entry_outcome ==
    IF is_sizing_optimization /\ is_whole_sale_market THEN "False"
    ELSE IF is_sizing_optimization /\ post_facto_reliability_only THEN "False"
    ELSE IF is_sizing_optimization /\ is_dcp_error(incl_binary) THEN "False"
    ELSE IF is_deferral_only \/ post_facto_reliability_only THEN "True"
    ELSE "Loop"

\* A slip of lines 135-162: the degradation is calculated before the solve.
next_step_calc_before_solve(step) ==
    CASE step = "apply_past_degredation" -> "calc_degradation"
      [] step = "calc_degradation" -> "set_up_and_run_optimization"
      [] step = "set_up_and_run_optimization" -> "concat_objective_values"
      [] step = "concat_objective_values" -> "save_variable_results"
      [] step = "save_variable_results" -> "apply_past_degredation"

\* Lines 135-162: the statements of the loop body, in order; after the last
\* one the loop goes to its next window.
next_step(step) ==
    CASE step = "apply_past_degredation" -> "set_up_and_run_optimization"
      [] step = "set_up_and_run_optimization" -> "calc_degradation"
      [] step = "calc_degradation" -> "concat_objective_values"
      [] step = "concat_objective_values" -> "save_variable_results"
      [] step = "save_variable_results" -> "apply_past_degredation"

Logged(step) == Append(log, [op |-> step, period |-> opt_period])

RECURSIVE SumSeq(_)
SumSeq(q) == IF q = <<>> THEN 0 ELSE Head(q) + SumSeq(Tail(q))

\* der.apply_past_degredation(opt_period): the energy the storage can still
\* use, its rating less the degradation recorded by the windows before.
degraded_energy(der, recorded) ==
    IF der.ene_max_rated.value > SumSeq(recorded)
    THEN der.ene_max_rated.value - SumSeq(recorded)
    ELSE 0

\* Lines 106-129: the checks before the loop.
OptEntry ==
    /\ opt_pc = "Entry"
    /\ alpha' = IF is_sizing_optimization /\ entry_outcome # "False"
                THEN AnnuityScalar ELSE 1
    /\ IF entry_outcome = "Loop"
       THEN /\ opt_pc' = "apply_past_degredation"
            /\ opt_period' = 1
            /\ UNCHANGED opt_return
       ELSE /\ opt_pc' = "Returned"
            /\ opt_return' = entry_outcome
            /\ UNCHANGED opt_period
    /\ UNCHANGED <<input_vars, heap, poi_der_list, rel_vars, ess_vars, gen_vars, set_up_calls,
                   objective_values, degrade_data, usable_energy,
                   variable_results, window_objective, log>>

\* Lines 135-138: apply past degradation in every energy storage.
ApplyPastDegradation ==
    /\ opt_pc = "apply_past_degredation"
    /\ usable_energy' =
           [i \in DOMAIN usable_energy |->
               IF heap[poi_der_list][i].technology_type = ESS
               THEN degraded_energy(heap[poi_der_list][i], degrade_data[i])
               ELSE usable_energy[i]]
    /\ log' = Logged("apply_past_degredation")
    /\ opt_pc' = next_step("apply_past_degredation")
    /\ UNCHANGED <<input_vars, heap, poi_der_list, rel_vars, ess_vars, gen_vars, opt_period,
                   opt_return, set_up_calls, objective_values, degrade_data,
                   variable_results, alpha, window_objective>>

\* Lines 143-147: set_up_optimization and run_optimization of the window; the
\* solver's objective cost is any value.
SolveWindow ==
    /\ opt_pc = "set_up_and_run_optimization"
    /\ set_up_calls' =
           Append(set_up_calls,
                  [period |-> opt_period, annuity_scalar |-> alpha,
                   ignore_der_costs |-> post_facto_reliability_only])
    /\ window_objective' \in 0..MaxCost
    /\ log' = Logged("set_up_and_run_optimization")
    /\ opt_pc' = next_step("set_up_and_run_optimization")
    /\ UNCHANGED <<input_vars, heap, poi_der_list, rel_vars, ess_vars, gen_vars, opt_period,
                   opt_return, objective_values, degrade_data, usable_energy,
                   variable_results, alpha>>

\* Lines 149-153: calc_degradation in every energy storage; what a window's
\* operation costs the storage is any amount.
CalcDegradation ==
    /\ opt_pc = "calc_degradation"
    /\ \E d \in 0..MaxDegradation :
           degrade_data' =
               [i \in DOMAIN degrade_data |->
                   IF heap[poi_der_list][i].technology_type = ESS
                   THEN Append(degrade_data[i], d)
                   ELSE degrade_data[i]]
    /\ log' = Logged("calc_degradation")
    /\ opt_pc' = next_step("calc_degradation")
    /\ UNCHANGED <<input_vars, heap, poi_der_list, rel_vars, ess_vars, gen_vars, opt_period,
                   opt_return, set_up_calls, objective_values, usable_energy,
                   variable_results, alpha, window_objective>>

\* Lines 155-156: self.objective_values = pd.concat([...])
ConcatObjectiveValues ==
    /\ opt_pc = "concat_objective_values"
    /\ objective_values' =
           Append(objective_values,
                  [period |-> opt_period, cost |-> window_objective])
    /\ log' = Logged("concat_objective_values")
    /\ opt_pc' = next_step("concat_objective_values")
    /\ UNCHANGED <<input_vars, heap, poi_der_list, rel_vars, ess_vars, gen_vars, opt_period,
                   opt_return, set_up_calls, degrade_data, usable_energy,
                   variable_results, alpha, window_objective>>

\* A slip of lines 130 and 158-163: the loop passes over the window after the
\* one it saved.
SaveVariableResults_skipping_a_window ==
    /\ opt_pc = "save_variable_results"
    /\ variable_results' = Append(variable_results, opt_period)
    /\ log' = Logged("save_variable_results")
    /\ IF opt_period < n_periods
       THEN /\ opt_period' = opt_period + 2
            /\ opt_pc' = next_step("save_variable_results")
            /\ UNCHANGED opt_return
       ELSE /\ opt_pc' = "Returned"
            /\ opt_return' = "True"
            /\ UNCHANGED opt_period
    /\ UNCHANGED <<input_vars, heap, poi_der_list, rel_vars, ess_vars, gen_vars, set_up_calls,
                   objective_values, degrade_data, usable_energy, alpha,
                   window_objective>>

\* Lines 158-163: save_variable_results of every DER and value stream, then
\* the next window, or return True after the last one.
SaveVariableResults ==
    /\ opt_pc = "save_variable_results"
    /\ variable_results' = Append(variable_results, opt_period)
    /\ log' = Logged("save_variable_results")
    /\ IF opt_period < n_periods
       THEN /\ opt_period' = opt_period + 1
            /\ opt_pc' = next_step("save_variable_results")
            /\ UNCHANGED opt_return
       ELSE /\ opt_pc' = "Returned"
            /\ opt_return' = "True"
            /\ UNCHANGED opt_period
    /\ UNCHANGED <<input_vars, heap, poi_der_list, rel_vars, ess_vars, gen_vars, set_up_calls,
                   objective_values, degrade_data, usable_energy, alpha,
                   window_objective>>

----------------------------------------------------------------------------
\* The inputs.

\* The portfolios of active value streams.
ServicePortfolios ==
    {{"Reliability"}, {"Reliability", "retailTimeShift"}, {"retailTimeShift"}}

\* The horizons: a short one, and one longer than top_n_outages.
Horizons == {SmallH, top_n_outages + 1}

\* The critical-load series of length h: LoLoad, with HiLoad at a few steps.
Profiles(h) ==
    {[t \in 0..(h - 1) |-> IF t \in P THEN HiLoad ELSE LoLoad] :
        P \in {Q \in SUBSET (0..(h - 1)) : Cardinality(Q) <= MaxPeaks}}

\* The scenario's fleet as input: one storage, its energy rating input as zero
\* (to be sized) or fixed, its power ratings fixed.
InputFleets ==
    {<<ESSSizing(Params(e, PowerRated, PowerRated))>> :
        e \in {0, 2 * MaxEneBlocks}}

\* No ESSSizing object is looked at on its own.
EssIdle ==
    /\ ess_pc = "Idle"
    /\ ess_params = Params(0, 0, 0)
    /\ ess = <<>>
    /\ ess_ret = [fn |-> "", solution |-> FALSE, result |-> NoneResult,
                  at |-> ""]

\* No DieselSizing object is looked at on its own.
GenIdle ==
    /\ gen_pc = "Idle"
    /\ gen_params = <<>>
    /\ gen = <<>>
    /\ gen_constraints = <<>>
    /\ ice_gen = <<>>
    /\ gen_ret = [fn |-> "", result |-> NoneResult, at |-> ""]

\* optimize_problem_loop has not been called.
OptIdle ==
    /\ post_facto_only = FALSE
    /\ incl_binary = FALSE
    /\ n_periods = 0
    /\ opt_pc = "Idle"
    /\ opt_period = 0
    /\ opt_return = "None"
    /\ set_up_calls = <<>>
    /\ objective_values = <<>>
    /\ degrade_data = <<>>
    /\ usable_energy = <<>>
    /\ variable_results = <<>>
    /\ alpha = 1
    /\ window_objective = 0
    /\ log = <<>>

Init ==
    /\ value_streams \in ServicePortfolios
    /\ \E h \in Horizons : critical_load \in Profiles(h)
    /\ generation \in 0..MaxGen
    /\ outage_duration \in 2..3
    /\ soc_init \in 1..2
    /\ poi_der_list = 1
    /\ \E f \in InputFleets : heap = [r \in 1..2 |-> IF r = 1 THEN f ELSE <<>>]
    /\ OptIdle
    /\ EssIdle
    /\ GenIdle
    /\ rel_pc = "Entry"
    /\ der_list = 0
    /\ analysis_indices = <<>>
    /\ IsReliable = "No"
    /\ First_failure_ind = -1
    /\ rounds = 0

Next ==
    \/ RelEntry
    \/ Sizing
    \/ Verifying
    \/ SetSize
    \/ MinSoe
    \/ Publish

Spec == Init /\ [][Next]_vars

\* The portfolios optimize_problem_loop is run with.
OptPortfolios ==
    {{"Deferral"}, {"Reliability"}, {"FR"}, {"DA", "FR"}, {"retailTimeShift"},
     {"Reliability", "retailTimeShift"}, {"Deferral", "retailTimeShift"}}

\* The fleets optimize_problem_loop is run with: a storage with any of its
\* ratings input as zero, a generator, or both.
OptStorages ==
    {ESSSizing(Params(e, p, p)) : e \in {0, 2 * MaxEneBlocks}, p \in {0, PowerRated}}
    \cup {ESSSizing(Params(2 * MaxEneBlocks, 0, PowerRated))}
OptFleets ==
    {<<b>> : b \in OptStorages} \cup {<<b, Generator>> : b \in OptStorages}
        \cup {<<Generator>>}

\* Reliability_based_sizing_module is not running.
RelIdle ==
    /\ critical_load = <<>>
    /\ generation = 0
    /\ outage_duration = 0
    /\ soc_init = 2
    /\ rel_pc = "Idle"
    /\ der_list = 0
    /\ analysis_indices = <<>>
    /\ IsReliable = "No"
    /\ First_failure_ind = -1
    /\ rounds = 0

InitOpt ==
    /\ value_streams \in OptPortfolios
    /\ post_facto_only \in BOOLEAN
    /\ post_facto_only => "Reliability" \in value_streams
    /\ incl_binary \in BOOLEAN
    /\ n_periods \in 1..MaxPeriods
    /\ poi_der_list = 1
    /\ \E f \in OptFleets : heap = [r \in 1..2 |-> IF r = 1 THEN f ELSE <<>>]
    /\ opt_pc = "Entry"
    /\ opt_period = 0
    /\ opt_return = "None"
    /\ set_up_calls = <<>>
    /\ objective_values = <<>>
    /\ degrade_data = [i \in DOMAIN heap[1] |-> <<>>]
    /\ usable_energy = [i \in DOMAIN heap[1] |-> heap[1][i].ene_max_rated.value]
    /\ variable_results = <<>>
    /\ alpha = 1
    /\ window_objective = 0
    /\ log = <<>>
    /\ RelIdle
    /\ EssIdle
    /\ GenIdle

NextOpt ==
    \/ OptEntry
    \/ ApplyPastDegradation
    \/ SolveWindow
    \/ CalcDegradation
    \/ ConcatObjectiveValues
    \/ SaveVariableResults

SpecOpt == InitOpt /\ [][NextOpt]_vars

\* The params an ESSSizing object is built from: each rating zero (to be
\* sized) or not, each time-series limit included or not, given or not.
ESSParams ==
    {[ene_max_rated |-> ene, ch_max_rated |-> ch, dis_max_rated |-> dis,
      llsoc |-> 20, ulsoc |-> 100,
      incl_energy_limits |-> ie, limit_energy_max |-> le,
      incl_charge_limits |-> ic, limit_charge_max |-> lc,
      incl_discharge_limits |-> id, limit_discharge_max |-> ld] :
        ene \in {0, 2 * MaxEneBlocks},
        ch \in {0, PowerRated, PowerRated + 1},
        dis \in {0, PowerRated, PowerRated + 1},
        ie \in BOOLEAN, ic \in BOOLEAN, id \in BOOLEAN,
        le \in {"None", "ts"}, lc \in {"None", "ts"}, ld \in {"None", "ts"}}

InitESS ==
    /\ ess_pc = "New"
    /\ ess_params \in ESSParams
    /\ ess = <<>>
    /\ ess_ret = [fn |-> "", solution |-> FALSE, result |-> NoneResult,
                  at |-> ""]
    /\ value_streams = {}
    /\ poi_der_list = 1
    /\ heap = [r \in 1..2 |-> <<>>]
    /\ RelIdle
    /\ OptIdle
    /\ GenIdle

NextESS ==
    \/ ESSConstruct
    \/ ESSSolve
    \/ CallDischargeCapacity
    \/ CallChargeCapacity
    \/ CallEnergyCapacity
    \/ CallOperationalMaxEnergy
    \/ CallOperationalMinEnergy
    \/ CallCalculateDuration
    \/ CallSizingSummary
    \/ CallConstraints

SpecESS == InitESS /\ [][NextESS]_vars

\* The params a DieselSizing object is built from.
GenParams ==
    [n_min : 0..MaxUnits, n_max : 0..MaxUnits, p_max : 1..MaxUnitPower,
     capital_cost : 1..MaxUnitCost, ccost_kw : 1..MaxUnitCost]

InitGen ==
    /\ gen_pc = "New"
    /\ gen_params \in GenParams
    /\ gen = <<>>
    /\ gen_constraints = <<>>
    /\ ice_gen = <<>>
    /\ gen_ret = [fn |-> "", result |-> NoneResult, at |-> ""]
    /\ value_streams = {}
    /\ poi_der_list = 1
    /\ heap = [r \in 1..2 |-> <<>>]
    /\ RelIdle
    /\ OptIdle
    /\ EssIdle

NextGen ==
    \/ GenConstruct
    \/ GenBuildMasterConstraints
    \/ GenSolve
    \/ GenSizingSummary

SpecGen == InitGen /\ [][NextGen]_vars

\* The end-to-end scenario: a critical load of 5 kW at each of 5 steps, no
\* generation, an outage of 4 or 5 steps to ride through, and one storage
\* with its energy rating input as zero or fixed and 5 kW of power.
EndToEndProfile == [t \in 0..4 |-> 5]

InitEndToEnd ==
    /\ value_streams \in ServicePortfolios
    /\ critical_load = EndToEndProfile
    /\ generation = 0
    /\ outage_duration \in 4..5
    /\ soc_init \in 1..2
    /\ poi_der_list = 1
    /\ \E e \in {0, 25} :
           heap = [r \in 1..2 |->
                      IF r = 1 THEN <<ESSSizing(Params(e, 5, 5))>> ELSE <<>>]
    /\ OptIdle
    /\ EssIdle
    /\ GenIdle
    /\ rel_pc = "Entry"
    /\ der_list = 0
    /\ analysis_indices = <<>>
    /\ IsReliable = "No"
    /\ First_failure_ind = -1
    /\ rounds = 0

NextEndToEnd ==
    \/ RelEntry
    \/ SizingAgainstCandidates
    \/ Verifying
    \/ SetSize
    \/ MinSoe
    \/ Publish

\* The module is sequential code: it goes on to its next statement.
SpecEndToEnd == InitEndToEnd /\ [][NextEndToEnd]_vars /\ WF_vars(NextEndToEnd)

\* One DER that can be sized, a storage or a generator, on its own.
InitDER == InitESS \/ InitGen

NextDER == NextESS \/ NextGen

SpecDER == InitDER /\ [][NextDER]_vars

----------------------------------------------------------------------------
\* The reliability sizing loop's properties, checked under Spec.

\* C1: the loop leaves the Sizing/Verifying cycle (IsReliable = 'Yes') only if
\* no start step of the horizon fails the last verification sweep: no step t
\* survives fewer steps than the required outage duration and fewer than H - t.
C1_ConvergedOnlyWithoutFailure ==
    IsReliable = "Yes" =>
        \A t \in 0..(H - 1) : ~fails_at(t, ess_properties(heap[der_list]))

\* C2: the loop converges within H sizing rounds: the number of rounds never
\* exceeds the horizon length H.
C2_RoundsBoundedByHorizon == rounds <= H

\* C3: analysis_indices never holds a time-step index twice.
C3_NoDuplicateCandidates == NoDuplicates(analysis_indices)

\* C4: analysis_indices is append-only: what it holds before a step is a
\* prefix of what it holds after it, so its length never decreases and no
\* entry is removed or reordered.
C4_CandidatesAppendOnly == [][IsPrefix(analysis_indices, analysis_indices')]_vars

\* C4's case: a verification sweep has appended a failing index that was no
\* candidate before.
C4_Witness ==
    /\ rel_pc = "Sizing"
    /\ Len(analysis_indices) = top_n_outages + 1
    /\ analysis_indices[Len(analysis_indices)] = First_failure_ind
    /\ NoDuplicates(analysis_indices)

\* C5: the scenario's own fleet (the object self.poi.der_list names, and its
\* contents) is unchanged by every step but the publication, which happens
\* only after the loop has converged, installs the sized copy, and is final.
C5_FleetUntouchedUntilPublished ==
    [][/\ (rel_pc' # "Published" =>
              /\ poi_der_list' = poi_der_list
              /\ heap'[poi_der_list] = heap[poi_der_list])
       /\ (rel_pc' = "Published" =>
              /\ rel_pc = "MinSoeDone"
              /\ IsReliable = "Yes"
              /\ poi_der_list' = der_list
              /\ der_list # poi_der_list)]_vars

\* C5's case: a second sizing round has sized the copy while the scenario's
\* fleet still holds the unsized energy rating.
C5_Witness ==
    /\ rel_pc = "Verifying"
    /\ rounds >= 2
    /\ heap[der_list][1].ene_max_rated.value > 0
    /\ heap[poi_der_list][1].ene_max_rated = Variable("Energy_cap")

\* Step t comes before step u in the ranking of the initial candidates:
\* more unserved demand, or as much and earlier in time.
RankedBefore(t, u) ==
    \/ max_load_demand_unserved(t) > max_load_demand_unserved(u)
    \/ /\ max_load_demand_unserved(t) = max_load_demand_unserved(u)
       /\ t < u

\* C20: the initial CandidateOutageSet (analysis_indices before the first
\* sizing round) holds the first N steps (N = 10, or every step of a shorter
\* horizon) of the ranking by critical load - available generation,
\* decreasing, where steps with equal unserved demand are in time order.
C20_InitialCandidatesRanked ==
    (rel_pc = "Sizing" /\ rounds = 0) =>
        /\ Len(analysis_indices) = Min(top_n_outages, H)
        /\ \A i, j \in 1..Len(analysis_indices) :
               i < j => RankedBefore(analysis_indices[i], analysis_indices[j])
        /\ \A t \in 0..(H - 1) :
               (\A i \in 1..Len(analysis_indices) : analysis_indices[i] # t) =>
                   \A i \in 1..Len(analysis_indices) :
                       RankedBefore(analysis_indices[i], t)

\* The energy rating of the fleet the module works on.
SizedEnergy == ess_properties(heap[der_list]).energy_rating

\* The scenario of C21: an outage of 5 steps and an energy rating to size.
EndToEndCase ==
    /\ critical_load = EndToEndProfile
    /\ generation = 0
    /\ outage_duration = 5
    /\ "Reliability" \in value_streams
    /\ heap[1][1].ene_max_rated.var

CandidateOutageSet == {analysis_indices[i] : i \in 1..Len(analysis_indices)}

\* C22: a verification sweep whose failing index is already a candidate does
\* not start another Sizing round: every step from Verifying back to Sizing
\* makes the CandidateOutageSet strictly grow, and a sweep that cannot do so
\* ends the loop in the DivergentReliabilityLoop outcome.
C22_DivergenceIsFatal ==
    [][rel_pc = "Verifying" =>
          /\ (rel_pc' = "Sizing" =>
                 /\ CandidateOutageSet \subseteq CandidateOutageSet'
                 /\ CandidateOutageSet' # CandidateOutageSet)
          /\ (sweep(ess_properties(heap[der_list])) \in CandidateOutageSet =>
                 rel_pc' = "DivergentReliabilityLoop")]_vars

\* C25: a verification sweep with a genuinely failing start step appends the
\* smallest such step to analysis_indices, and nothing else; a sweep without
\* one appends nothing, so a start step that falls short of the required
\* duration only because the data ends (it survives H - t steps or more) is
\* never appended.
C25_SmallestFailingStepAppended ==
    [][rel_pc = "Verifying" =>
          LET props == ess_properties(heap[der_list])
              failing == {t \in 0..(H - 1) : fails_at(t, props)}
          IN IF failing # {}
             THEN \E t \in failing :
                      /\ \A u \in failing : t <= u
                      /\ analysis_indices' = Append(analysis_indices, t)
             ELSE analysis_indices' = analysis_indices]_vars

\* How far the finalization has come: 0 while the loop runs.
Finalization ==
    CASE rel_pc = "Converged" -> 1
      [] rel_pc = "SizeSet" -> 2
      [] rel_pc = "MinSoeDone" -> 3
      [] rel_pc = "Published" -> 4
      [] OTHER -> 0

\* C26: once the loop has converged, set_size on every DER of the sized copy,
\* the minimum-SOE pass and the publication of that copy happen in this
\* order, once each: set_size and the minimum-SOE pass never run while the
\* loop is in Sizing or Verifying, and no sizing round follows them.
C26_FinalizationInOrder ==
    [][/\ Finalization > 0 =>
              /\ Finalization' = Finalization + 1
              /\ rounds' = rounds
              /\ analysis_indices' = analysis_indices
              /\ IsReliable' = "Yes"
       /\ Finalization' > 1 => Finalization = Finalization' - 1
       /\ rel_pc' = "SizeSet" =>
              /\ poi_der_list' = poi_der_list
              /\ heap'[poi_der_list] = heap[poi_der_list]
              /\ \A i \in DOMAIN heap'[der_list] :
                     /\ heap'[der_list][i].ene_max_rated =
                            Literal(heap[der_list][i].ene_max_rated.value)
                     /\ ~heap'[der_list][i].ch_max_rated.var
                     /\ ~heap'[der_list][i].dis_max_rated.var
       /\ rel_pc' = "MinSoeDone" => heap' = heap /\ poi_der_list' = poi_der_list
       /\ rel_pc' = "Published" => heap' = heap /\ poi_der_list' = der_list]_vars

\* C26's case: the module has published a fleet that took two sizing rounds,
\* every energy rating of it a number.
C26_Witness ==
    /\ rel_pc = "Published"
    /\ rounds >= 2
    /\ poi_der_list = der_list
    /\ \A i \in DOMAIN heap[poi_der_list] :
           ~heap[poi_der_list][i].ene_max_rated.var

\* C27: without the Reliability value stream, or with a fleet that is not in
\* sizing mode, Reliability_based_sizing_module does nothing but return: no
\* copy is made, no sizing round or sweep runs, no candidate is chosen, and
\* self.poi.der_list names the same object with the same contents.
C27_NoOpWithoutReliabilitySizing ==
    [][("Reliability" \notin value_streams \/ ~is_sizing_optimization) =>
          /\ rel_pc = "Entry"
          /\ rel_pc' = "Returned"
          /\ poi_der_list' = poi_der_list
          /\ heap' = heap
          /\ der_list' = der_list
          /\ analysis_indices' = analysis_indices
          /\ rounds' = rounds
          /\ First_failure_ind' = First_failure_ind
          /\ IsReliable' = IsReliable]_vars

\* C27's case: the module has returned for a fleet of fixed ratings although
\* the Reliability value stream is active.
C27_Witness ==
    /\ rel_pc = "Returned"
    /\ "Reliability" \in value_streams
    /\ ~is_sizing_optimization
    /\ analysis_indices = <<>>
    /\ rounds = 0

----------------------------------------------------------------------------
\* optimize_problem_loop's properties, checked under SpecOpt.

StepOrder ==
    <<"apply_past_degredation", "set_up_and_run_optimization",
      "calc_degradation", "concat_objective_values", "save_variable_results">>

\* No window was touched: nothing applied, solved, recorded or saved.
NoWindowProcessed ==
    /\ log = <<>>
    /\ set_up_calls = <<>>
    /\ objective_values = <<>>
    /\ variable_results = <<>>
    /\ \A i \in DOMAIN degrade_data : degrade_data[i] = <<>>
    /\ \A i \in DOMAIN usable_energy :
           usable_energy[i] = heap[poi_der_list][i].ene_max_rated.value

\* C6: the steps of optimize_problem_loop run period after period, and within
\* each period in the order apply past degradation, solve, calculate
\* degradation, append the objective costs, save the results; the degradation
\* calculation of period k comes before apply-past-degradation of period
\* k + 1, which finds the degradation of all k periods before it recorded.
C6_StepsInOrder ==
    /\ \A i \in 1..Len(log) :
           /\ log[i].op = StepOrder[((i - 1) % 5) + 1]
           /\ log[i].period = ((i - 1) \div 5) + 1
    /\ \A i, j \in 1..Len(log) :
           (/\ log[i].op = "calc_degradation"
            /\ log[j].op = "apply_past_degredation"
            /\ log[j].period = log[i].period + 1) => i < j
    /\ (log # <<>> /\ log[Len(log)].op = "apply_past_degredation") =>
           \A i \in DOMAIN degrade_data :
               heap[poi_der_list][i].technology_type = ESS =>
                   /\ Len(degrade_data[i]) = opt_period - 1
                   /\ usable_energy[i] =
                          degraded_energy(heap[poi_der_list][i], degrade_data[i])

\* C6's case: a second period has applied the degradation that the first
\* period recorded for a storage.
C6_Witness ==
    /\ opt_pc = "set_up_and_run_optimization"
    /\ opt_period = 2
    /\ \E i \in DOMAIN degrade_data :
           /\ degrade_data[i] = <<MaxDegradation>>
           /\ usable_energy[i] < heap[poi_der_list][i].ene_max_rated.value

\* C7 as claimed: with a deferral-only or post-facto-reliability-only
\* portfolio the loop processes no window and returns True.
C7_SkippedReturnsTrue ==
    (is_deferral_only \/ post_facto_reliability_only) =>
        /\ NoWindowProcessed
        /\ opt_pc = "Returned" => opt_return = "True"

\* C7 as amended: with a deferral-only or post-facto-reliability-only
\* portfolio the loop processes no window; it returns True, unless the fleet
\* is in sizing mode and the portfolio is post-facto-reliability-only or a
\* power rating is sized under the binary formulation: then it returns False.
C7_SkippedWithoutWindows ==
    (is_deferral_only \/ post_facto_reliability_only) =>
        /\ NoWindowProcessed
        /\ opt_pc = "Returned" =>
               opt_return =
                   IF /\ is_sizing_optimization
                      /\ post_facto_reliability_only \/ is_dcp_error(incl_binary)
                   THEN "False" ELSE "True"

\* C7's case: a deferral-only run in sizing mode that no check refuses has
\* returned True.
C7_Witness ==
    /\ opt_pc = "Returned"
    /\ is_deferral_only
    /\ is_sizing_optimization
    /\ opt_return = "True"

\* C8: in sizing mode with wholesale-market or post-facto-reliability-only
\* services the loop returns False and no window is processed: no
\* set_up_optimization or run_optimization call, no degradation update,
\* objective_values unchanged.
C8_UnsizableFailsBeforeSolve ==
    (is_sizing_optimization /\ (is_whole_sale_market \/ post_facto_reliability_only)) =>
        /\ NoWindowProcessed
        /\ opt_pc = "Returned" => opt_return = "False"

\* C8's case: a sizing run with post-facto-reliability-only services has
\* returned.
C8_Witness ==
    /\ opt_pc = "Returned"
    /\ is_sizing_optimization
    /\ post_facto_reliability_only
    /\ opt_return = "False"

\* C9: when a power rating is sized and the binary formulation is on, the loop
\* returns False and no window is processed; neither setting is dropped.
C9_DcpErrorFails ==
    (is_sizing_optimization /\ is_dcp_error(incl_binary)) =>
        /\ NoWindowProcessed
        /\ opt_pc = "Returned" => opt_return = "False"
        /\ incl_binary
        /\ \E i \in DOMAIN heap[poi_der_list] :
               \/ heap[poi_der_list][i].ch_max_rated.var
               \/ heap[poi_der_list][i].dis_max_rated.var

\* C9's case: a run whose only fault is power sizing under the binary
\* formulation has returned.
C9_Witness ==
    /\ opt_pc = "Returned"
    /\ is_dcp_error(incl_binary)
    /\ ~is_whole_sale_market
    /\ ~post_facto_reliability_only
    /\ ~is_deferral_only
    /\ opt_return = "False"

\* C23: optimize_problem_loop solves the optimization periods in increasing
\* order, each exactly once: the k-th set_up_optimization/run_optimization
\* call is for period k, none is skipped, repeated or retried whatever
\* objective the solver returned, and a run that went through the loop
\* returns True with every period solved.
C23_EachPeriodSolvedOnce ==
    /\ Len(set_up_calls) <= n_periods
    /\ \A k \in 1..Len(set_up_calls) : set_up_calls[k].period = k
    /\ Len(objective_values) <= Len(set_up_calls)
    /\ \A k \in 1..Len(objective_values) : objective_values[k].period = k
    /\ (opt_pc = "Returned" /\ entry_outcome = "Loop") =>
           /\ opt_return = "True"
           /\ Len(set_up_calls) = n_periods
           /\ Len(objective_values) = n_periods

\* C23's case: a run of the longest horizon has returned, with windows for
\* which the solver returned different objective costs.
C23_Witness ==
    /\ opt_pc = "Returned"
    /\ n_periods = MaxPeriods
    /\ Len(set_up_calls) = MaxPeriods
    /\ objective_values[1].cost # objective_values[MaxPeriods].cost

\* C28: every set_up_optimization call of optimize_problem_loop is made with
\* ignore_der_costs = False: a post-facto-reliability-only run returns before
\* the loop over the windows, so no window is set up with the flag on.
C28_DerCostsNeverIgnored ==
    /\ \A k \in 1..Len(set_up_calls) : ~set_up_calls[k].ignore_der_costs
    /\ post_facto_reliability_only => set_up_calls = <<>>

\* C28's case: a run with Reliability as its only value stream, not post
\* facto only, has set up every window.
C28_Witness ==
    /\ value_streams = {"Reliability"}
    /\ opt_pc = "Returned"
    /\ Len(set_up_calls) = MaxPeriods
    /\ ~set_up_calls[MaxPeriods].ignore_der_costs

----------------------------------------------------------------------------
\* ESSSizing's properties, checked under SpecESS.

\* C10: charge_capacity(solution=False) returns the very object held as the
\* charge rating and discharge_capacity(solution=False) the one held as the
\* discharge rating; for a direction input as zero that object is the
\* decision variable created for it.
C10_PreSolveReturnsHeldRating ==
    (ess_pc \in {"Built", "Solved"} /\ ~ess_ret.solution) =>
        /\ ess_ret.fn = "charge_capacity" =>
               /\ ess_ret.result.kind = "object"
               /\ SameObject(ess_ret.result.obj, ess.ch_max_rated)
               /\ ess_params.ch_max_rated = 0 =>
                      /\ ess_ret.result.obj.var
                      /\ ess_ret.result.obj.name \in {"power_cap", "charge_power_cap"}
        /\ ess_ret.fn = "discharge_capacity" =>
               /\ ess_ret.result.kind = "object"
               /\ SameObject(ess_ret.result.obj, ess.dis_max_rated)
               /\ ess_params.dis_max_rated = 0 =>
                      /\ ess_ret.result.obj.var
                      /\ ess_ret.result.obj.name \in {"power_cap", "discharge_power_cap"}

\* The duration a call of calculate_duration or sizing_summary ended in.
DurationOutcome ==
    IF ess_ret.result.kind = "summary" THEN ess_ret.result.obj.duration
    ELSE ess_ret.result

\* C11: after a solve, calculate_duration (and sizing_summary, which calls
\* it) gives energy rating / discharge rating when the discharge rating
\* resolves to a non-zero number; when it resolves to 0 the call reports an
\* error: no division is made, so no ZeroDivisionError leaves the call and
\* no inf or nan is returned.
C11_DurationGuardsZeroDischarge ==
    (ess_ret.at = "Solved"
        /\ ess_ret.fn \in {"calculate_duration", "sizing_summary"}) =>
        IF resolve(ess.dis_max_rated).num # 0
        THEN DurationOutcome =
                 Ratio(resolve(ess.ene_max_rated).num,
                       resolve(ess.dis_max_rated).num)
        ELSE ess_ret.result.kind = "error"

\* A time-series limit is configured when the storage includes it and a
\* series is given.
Configured(incl, limit) == incl /\ limit # "None"

\* The size constraints of the object that are on a power rating.
PowerSizeConstraints ==
    {i \in DOMAIN ess.size_constraints :
        ess.size_constraints[i].negated # "Energy_cap"}

\* C12: an ESSSizing built with both the charge and the discharge rating
\* input as zero holds exactly one power decision variable, power_cap, as
\* both ratings (the same object, so both resolve to the same value), with
\* one non-negativity constraint, and a configured charge limit and a
\* configured discharge limit are both set to None.
C12_BothZeroShareOneVariable ==
    (ess_pc \in {"Built", "Solved"}
        /\ ess_params.ch_max_rated = 0 /\ ess_params.dis_max_rated = 0) =>
        /\ ess.ch_max_rated.var
        /\ SameObject(ess.ch_max_rated, ess.dis_max_rated)
        /\ variables_of(ess) \ {"Energy_cap"} = {"power_cap"}
        /\ Cardinality(PowerSizeConstraints) = 1
        /\ resolve(ess.ch_max_rated) = resolve(ess.dis_max_rated)
        /\ Configured(ess_params.incl_charge_limits, ess_params.limit_charge_max)
               => ess.limit_charge_max = "None"
        /\ Configured(ess_params.incl_discharge_limits,
                      ess_params.limit_discharge_max)
               => ess.limit_discharge_max = "None"

\* C12's case: a storage with both power ratings input as zero and both
\* limits configured has been built and solved.
C12_Witness ==
    /\ ess_pc = "Solved"
    /\ ess_params.ch_max_rated = 0 /\ ess_params.dis_max_rated = 0
    /\ Configured(ess_params.incl_charge_limits, ess_params.limit_charge_max)
    /\ Configured(ess_params.incl_discharge_limits, ess_params.limit_discharge_max)
    /\ ess.limit_charge_max = "None" /\ ess.limit_discharge_max = "None"
    /\ ess.dis_max_rated.value = MaxSolved

\* C13: an ESSSizing built with exactly one of the charge and discharge
\* ratings input as zero holds a decision variable for that direction only,
\* with its own non-negativity constraint (the only one on a power rating);
\* the other direction keeps its numeric input, before and after a solve;
\* the sized direction's configured limit is set to None and the other
\* direction's limit is left as input.
C13_OneZeroSizesThatDirection ==
    /\ (ess_pc \in {"Built", "Solved"}
           /\ ess_params.ch_max_rated = 0 /\ ess_params.dis_max_rated # 0) =>
           /\ ess.ch_max_rated.var /\ ess.ch_max_rated.name = "charge_power_cap"
           /\ ess.dis_max_rated = Literal(ess_params.dis_max_rated)
           /\ {ess.size_constraints[i] : i \in PowerSizeConstraints}
                  = {NonPosNeg(ess.ch_max_rated)}
           /\ Cardinality(PowerSizeConstraints) = 1
           /\ Configured(ess_params.incl_charge_limits, ess_params.limit_charge_max)
                  => ess.limit_charge_max = "None"
           /\ ess.limit_discharge_max = ess_params.limit_discharge_max
    /\ (ess_pc \in {"Built", "Solved"}
           /\ ess_params.ch_max_rated # 0 /\ ess_params.dis_max_rated = 0) =>
           /\ ess.dis_max_rated.var
           /\ ess.dis_max_rated.name = "discharge_power_cap"
           /\ ess.ch_max_rated = Literal(ess_params.ch_max_rated)
           /\ {ess.size_constraints[i] : i \in PowerSizeConstraints}
                  = {NonPosNeg(ess.dis_max_rated)}
           /\ Cardinality(PowerSizeConstraints) = 1
           /\ Configured(ess_params.incl_discharge_limits,
                         ess_params.limit_discharge_max)
                  => ess.limit_discharge_max = "None"
           /\ ess.limit_charge_max = ess_params.limit_charge_max

\* C13's case: a storage with only the discharge rating input as zero and
\* both limits configured has been built and solved: the discharge limit is
\* dropped, the charge limit and the charge rating are kept.
C13_Witness ==
    /\ ess_pc = "Solved"
    /\ ess_params.ch_max_rated = PowerRated /\ ess_params.dis_max_rated = 0
    /\ Configured(ess_params.incl_charge_limits, ess_params.limit_charge_max)
    /\ Configured(ess_params.incl_discharge_limits, ess_params.limit_discharge_max)
    /\ ess.limit_discharge_max = "None" /\ ess.limit_charge_max = "ts"
    /\ ess.ch_max_rated = Literal(PowerRated)
    /\ ess.dis_max_rated.solved /\ ess.dis_max_rated.value = MaxSolved

\* C14: an ESSSizing built with the energy rating input as zero holds one
\* energy decision variable, Energy_cap, with one non-negativity constraint;
\* its operational SOE bounds are llsoc * that variable and ulsoc * that
\* variable (and so resolve to llsoc and ulsoc times the solved value), and
\* no energy-max limit is active. Built with a non-zero energy rating, the
\* rating stays the literal input and the energy limit is left as input.
C14_EnergyZeroSizesEnergy ==
    /\ (ess_pc \in {"Built", "Solved"} /\ ess_params.ene_max_rated = 0) =>
           /\ ess.ene_max_rated.var /\ ess.ene_max_rated.name = "Energy_cap"
           /\ Cardinality(DOMAIN ess.size_constraints \ PowerSizeConstraints) = 1
           /\ ess.effective_soe_min = [coef |-> ess_params.llsoc,
                                       of |-> ess.ene_max_rated]
           /\ ess.effective_soe_max = [coef |-> ess_params.ulsoc,
                                       of |-> ess.ene_max_rated]
           /\ ~Configured(ess.incl_energy_limits, ess.limit_energy_max)
           /\ (ess_ret.at = "Solved" /\ ess_ret.solution) =>
                  /\ ess_ret.fn = "operational_min_energy" =>
                         ess_ret.result =
                             Num(ess_params.llsoc * ess.ene_max_rated.value)
                  /\ ess_ret.fn = "operational_max_energy" =>
                         ess_ret.result =
                             Num(ess_params.ulsoc * ess.ene_max_rated.value)
    /\ (ess_pc \in {"Built", "Solved"} /\ ess_params.ene_max_rated # 0) =>
           /\ ess.ene_max_rated = Literal(ess_params.ene_max_rated)
           /\ DOMAIN ess.size_constraints = PowerSizeConstraints
           /\ ess.limit_energy_max = ess_params.limit_energy_max
           /\ ess.incl_energy_limits = ess_params.incl_energy_limits

\* C14's case: a storage with the energy rating input as zero and an energy
\* limit configured has been built and solved, and operational_max_energy
\* resolved to ulsoc times the solved energy rating.
C14_Witness ==
    /\ ess_pc = "Solved"
    /\ ess_params.ene_max_rated = 0
    /\ Configured(ess_params.incl_energy_limits, ess_params.limit_energy_max)
    /\ ess.limit_energy_max = "None"
    /\ ess_ret.at = "Solved" /\ ess_ret.solution
    /\ ess_ret.fn = "operational_max_energy"
    /\ ess_ret.result = Num(ess_params.ulsoc * MaxSolved)

\* The entries of a list that are equal to c.
Occurrences(list, c) == {i \in DOMAIN list : list[i] = c}

\* The ratings of the storage that were input as zero.
ZeroInputRatings ==
    {r \in {"ene_max_rated", "ch_max_rated", "dis_max_rated"} : ess_params[r] = 0}

\* C16: for every rating of the storage that was input as zero, the list
\* every call of constraints(mask) returns, for every window mask, holds that
\* rating's non-negativity constraint, and every solve resolves the rating
\* to a value >= 0.
C16_NonNegativityInConstraints ==
    /\ (ess_pc \in {"Built", "Solved"} /\ ess_ret.fn = "constraints") =>
           \A r \in ZeroInputRatings :
               Occurrences(ess_ret.result.obj, NonPosNeg(ess[r])) # {}
    /\ ess_pc = "Solved" =>
           \A r \in ZeroInputRatings : ess[r].solved /\ ess[r].value >= 0

\* C16's case: a storage with all three ratings input as zero has been
\* solved, and constraints(mask) was called for the last window.
C16_Witness ==
    /\ ess_pc = "Solved"
    /\ ZeroInputRatings = {"ene_max_rated", "ch_max_rated", "dis_max_rated"}
    /\ ess_ret.fn = "constraints" /\ ess_ret.at = "Solved"
    /\ ess_ret.result.obj[1].mask = MaxPeriods
    /\ Len(ess_ret.result.obj) = 3
    /\ ess.ene_max_rated.value = MaxSolved

\* The five methods that resolve a rating.
Resolvers ==
    {"energy_capacity", "charge_capacity", "discharge_capacity",
     "operational_min_energy", "operational_max_energy"}

\* What a resolver gives after a solve: the solved value of a variable, the
\* literal of a fixed rating (times the SOC fraction for the SOE bounds).
ResolvedValue(fn) ==
    CASE fn = "energy_capacity" -> Num(ess.ene_max_rated.value)
      [] fn = "charge_capacity" -> Num(ess.ch_max_rated.value)
      [] fn = "discharge_capacity" -> Num(ess.dis_max_rated.value)
      [] fn = "operational_min_energy" ->
             Num(ess_params.llsoc * ess.ene_max_rated.value)
      [] fn = "operational_max_energy" ->
             Num(ess_params.ulsoc * ess.ene_max_rated.value)

\* C19: after a solve, every call of a resolver with solution=True leaves
\* every attribute of the storage unchanged and returns the resolved value
\* of the rating, so a second call of the same resolver returns what the
\* first one did.
C19_ResolveIdempotent ==
    [][(ess_pc = "Solved" /\ ess_pc' = "Solved") =>
          /\ ess' = ess
          /\ (ess_ret'.solution /\ ess_ret'.fn \in Resolvers) =>
                 ess_ret'.result = ResolvedValue(ess_ret'.fn)
          /\ (/\ ess_ret.at = "Solved" /\ ess_ret.solution
              /\ ess_ret'.solution
              /\ ess_ret.fn \in Resolvers /\ ess_ret'.fn = ess_ret.fn) =>
                 ess_ret'.result = ess_ret.result]_vars

\* C19's case: after a solve that sized the power variable shared by both
\* directions, discharge_capacity(solution=True) returned the solved value.
C19_Witness ==
    /\ ess_pc = "Solved"
    /\ ess_ret.at = "Solved" /\ ess_ret.solution
    /\ ess_ret.fn = "discharge_capacity"
    /\ ess.dis_max_rated.var /\ ess.dis_max_rated.name = "power_cap"
    /\ ess_ret.result = Num(MaxSolved)
    /\ ess.ch_max_rated = ess.dis_max_rated

----------------------------------------------------------------------------
\* Properties of the constraints a sized DER contributes, checked under
\* SpecDER.

\* C15: for every combination of zero and non-zero energy, charge and
\* discharge inputs, size_constraints has as many entries as the storage
\* holds distinct decision variables, and each variable has exactly one
\* non-negativity constraint in it; the constraint list a generator returns
\* for one window holds exactly one lower bound (n_min - n <= 0) and exactly
\* one upper bound (n - n_max <= 0) on the unit count, and no other bound on
\* the unit count alone.
C15_OneConstraintPerVariable ==
    /\ ess_pc \in {"Built", "Solved"} =>
           /\ Len(ess.size_constraints) = Cardinality(variables_of(ess))
           /\ \A name \in variables_of(ess) :
                  Cardinality(Occurrences(ess.size_constraints,
                      [constraint |-> "NonPos", negated |-> name])) = 1
    /\ gen_pc \in {"Constrained", "Solved"} =>
           /\ Cardinality(Occurrences(gen_constraints,
                  NonPos(gen_params.n_min, -1, 0, {}))) = 1
           /\ Cardinality(Occurrences(gen_constraints,
                  NonPos(0 - gen_params.n_max, 1, 0, {}))) = 1
           /\ Cardinality({i \in DOMAIN gen_constraints :
                  gen_constraints[i].gen_coef = 0}) = 2

\* C15's case: a storage with the energy rating and both power ratings input
\* as zero has been built: two variables, two constraints.
C15_Witness ==
    /\ ess_pc = "Built"
    /\ ess_params.ene_max_rated = 0
    /\ ess_params.ch_max_rated = 0 /\ ess_params.dis_max_rated = 0
    /\ variables_of(ess) = {"Energy_cap", "power_cap"}
    /\ Len(ess.size_constraints) = 2

----------------------------------------------------------------------------
\* DieselSizing's properties, checked under SpecGen.

C18_CapexFormula ==
    gen_pc \in {"Built", "Constrained", "Solved"} =>
        gen.capex = Affine(gen_params.capital_cost,
                           gen_params.ccost_kw * gen_params.p_max)

\* C29: after a solve, for every unit count the constraints allow (0 among
\* them when n_min = 0), sizing_summary returns its table without a division
\* fault: no exception leaves the call, 'Power Capacity (kW)' is a number, and
\* 'Quantity' is the solved unit count.
C29_SummaryWithoutDivisionFault ==
    (gen_ret.at = "Solved" /\ gen_ret.fn = "sizing_summary") =>
        /\ gen_ret.result.kind = "summary"
        /\ gen_ret.result.obj.power_capacity.kind \in {"number", "ratio"}
        /\ gen_ret.result.obj.quantity = gen.n.value

====
